---- MODULE Spec2Model ----
(***************************************************************************)
(* Dual Ticker (src/Ticker/App.py): one asyncio task per symbol polls a    *)
(* price endpoint, stores (time, price) points in two bounded deques, and  *)
(* backs off after a failure.  The window toggles a per-series paused flag *)
(* and _cleanup sets stop_event and cancels every task.                    *)
(*                                                                         *)
(* A task is modelled by the await it is suspended at (pc); one action is  *)
(* the code that runs between two awaits, which asyncio runs atomically.   *)
(* The HTTP exchange of fetch_price is one await whose outcome is drawn    *)
(* from Responses.  The [WARN] line of line 120 is written in the same     *)
(* step that enters the backoff sleep and is not kept in the state.        *)
(***************************************************************************)
EXTENDS Integers, Sequences, FiniteSets, TLC

\* ---------------------------------------------------------------- parameters
POLL_INTERVAL_SEC == 2
MaxDelay == 10
\* deque(maxlen=BUFFER_POINTS); the source value is 300, scaled down here
BUFFER_POINTS == 2
\* successful polls (clock readings) explored, enough to overflow one deque
MaxClock == BUFFER_POINTS + 1
\* cap of the counter of consecutive backoff waits
RunCap == 4
\* cap of the counter of consecutive paused ticks
MaxSkip == 2

SYMBOLS == <<"BTCUSDT", "ETHUSDT">>
\* the endpoints fetch_price requests, in order: BINANCE_URL alone
PROVIDERS == <<"binance">>
Series == {SYMBOLS[i] : i \in 1..Len(SYMBOLS)}

Min(a, b) == IF a <= b THEN a ELSE b

VARIABLES
  ts,          \* SeriesState.ts     : symbol -> deque of timestamps
  values,      \* SeriesState.values : symbol -> deque of prices
  paused,      \* SeriesState.paused
  stop_event,  \* asyncio.Event of main
  pc,          \* await each poll_symbol task is suspended at
  next_delay,  \* local next_delay of each poll_symbol
  cancelReq,   \* Task.cancel() was called and CancelledError is not yet thrown
  clock,       \* datetime.now(): strictly increasing reading
  hist,        \* history: every sample appended to the series, in order
  failRun,     \* history: backoff waits of the series since its last success
  skipRun,     \* history: consecutive ticks of the series that saw paused
  skipBuf,     \* history: <<ts, values>> at the first tick of that run
  inflight,    \* HTTP requests of the series that are open
  tried,       \* providers requested by the current or latest fetch_price call
  curve,       \* data last given to each curve by redraw: <<x list, y list>>
  track,       \* history switch: toggles between two poller steps are counted
  tog,         \* history: toggles of the series since its poller's last step
               \*   (0 none, 1 an odd number, 2 an even number)
  susp         \* history: View of the series after its poller's last step

vars == <<ts, values, paused, stop_event, pc, next_delay, cancelReq, clock,
          hist, failRun, skipRun, skipBuf, inflight, tried, curve, track, tog,
          susp>>

\* ------------------------------------------------------------- fetch_price
NoPrice == "<missing>"
\* the price string the endpoint quotes for a symbol (the URL names the symbol)
Quote == [s \in Series |-> IF s = SYMBOLS[1] THEN "100" ELSE "101"]
\* value of the "price" key of the JSON body: absent, the quote, or not a number
Bodies(s) == {NoPrice, Quote[s], "abc"}
Responses(s) ==
  {[net |-> "connerr", status |-> 0, body |-> NoPrice],
   [net |-> "timeout", status |-> 0, body |-> NoPrice]}
  \cup {[net |-> "ok", status |-> st, body |-> b] : st \in {200, 500}, b \in Bodies(s)}

\* float(str): the numeric strings of Bodies; anything else raises ValueError
Float == [str \in {"100", "101"} |-> IF str = "100" THEN 100 ELSE 101]

Raise(e) == [ok |-> FALSE, exc |-> e, price |-> 0]
Return(p) == [ok |-> TRUE, exc |-> "", price |-> p]

\* variant: a missing "price" key defaults to 0 (data.get("price", 0))
fetch_priceDefaultsMissing(resp) ==
  IF resp.net = "timeout" THEN Raise("TimeoutError")
  ELSE IF resp.net = "connerr" THEN Raise("ClientConnectorError")
  ELSE IF resp.status >= 400 THEN Raise("ClientResponseError")
  ELSE IF resp.body = NoPrice THEN Return(0)
  ELSE IF resp.body \notin DOMAIN Float THEN Raise("ValueError")
  ELSE Return(Float[resp.body])

fetch_price(resp) ==
  IF resp.net = "timeout" THEN Raise("TimeoutError")
  ELSE IF resp.net = "connerr" THEN Raise("ClientConnectorError")
  ELSE IF resp.status >= 400 THEN Raise("ClientResponseError")
  ELSE IF resp.body = NoPrice THEN Raise("KeyError")
  ELSE IF resp.body \notin DOMAIN Float THEN Raise("ValueError")
  ELSE Return(Float[resp.body])

\* ------------------------------------------------------------------ helpers
\* variant: a deque without maxlen, nothing is ever dropped
DequeAppendNoEvict(d, x) == Append(d, x)

\* deque.append with maxlen: a full deque drops its leftmost element
DequeAppend(d, x) ==
  IF Len(d) >= BUFFER_POINTS THEN Append(Tail(d), x) ELSE Append(d, x)

\* line 121: the sleep after a failure
BackoffWait(d) == Min(MaxDelay, d)
\* variant: the doubling is not capped
NextDelayUncapped(d) == d * 2

\* line 122: the delay after that sleep
NextDelayAfterFailure(d) == Min(MaxDelay, d * 2)

Buffer(s) == <<ts[s], values[s]>>

\* what the poller of a series reads and writes
View(s) == <<paused[s], pc[s], next_delay[s], ts[s], values[s], inflight[s]>>

\* ------------------------------------------------------------------- Init
Base ==
  /\ ts = [s \in Series |-> <<>>]
  /\ values = [s \in Series |-> <<>>]
  /\ paused = [s \in Series |-> FALSE]
  /\ stop_event = FALSE
  /\ pc = [s \in Series |-> "start"]
  /\ next_delay = [s \in Series |-> POLL_INTERVAL_SEC]
  /\ cancelReq = [s \in Series |-> FALSE]
  /\ clock = 0
  /\ hist = [s \in Series |-> <<>>]
  /\ failRun = [s \in Series |-> 0]
  /\ skipRun = [s \in Series |-> 0]
  /\ skipBuf = [s \in Series |-> <<>>]
  /\ inflight = [s \in Series |-> 0]
  /\ tried = [s \in Series |-> <<>>]
  /\ curve = [s \in Series |-> <<<<>>, <<>>>>]
  /\ tog = [s \in Series |-> 0]
  /\ susp = [s \in Series |-> View(s)]

Init == Base /\ track = FALSE

\* the same program with the toggles between poller steps recorded
PairInit == Base /\ track = TRUE

\* a poller step of the series ends: a new suspension begins
Resumed(s) ==
  /\ tog' = [tog EXCEPT ![s] = 0]
  /\ susp' = [susp EXCEPT ![s] = IF track THEN View(s)' ELSE @]
  /\ UNCHANGED track

\* a toggle of the series is counted
Counted(s) ==
  /\ tog' = [tog EXCEPT ![s] = IF ~track THEN 0 ELSE IF @ = 0 THEN 1 ELSE 3 - @]
  /\ UNCHANGED <<susp, track>>

\* ------------------------------------------------------ the loop head (tick)
\* variant: the tick does not test paused
TickTargetIgnoresPause(s) == IF stop_event THEN "done" ELSE "fetch"

\* lines 99-102 and 108: while-test, paused test, up to the next await
TickTarget(s) ==
  IF stop_event THEN "done"
  ELSE IF paused[s] THEN "wait"
  ELSE "fetch"

\* the tick reads paused (line 101)
SawPaused(s) == ~stop_event /\ paused[s]

Tick(s) ==
  /\ pc' = [pc EXCEPT ![s] = TickTarget(s)]
  /\ skipRun' = [skipRun EXCEPT ![s] =
                   IF SawPaused(s) THEN Min(@ + 1, MaxSkip) ELSE 0]
  /\ skipBuf' = [skipBuf EXCEPT ![s] =
                   IF SawPaused(s)
                   THEN (IF skipRun[s] = 0 THEN Buffer(s) ELSE @)
                   ELSE <<>>]

\* fetch_price is called when the tick goes on to fetch: one session.get
Issued(s) == IF TickTarget(s) = "fetch" THEN 1 ELSE 0

\* the requests of a step that runs the loop head after closing `closed`
\* open requests
Issue(s, closed) ==
  /\ inflight' = [inflight EXCEPT ![s] = @ - closed + Issued(s)]
  /\ tried' = [tried EXCEPT ![s] =
                 IF TickTarget(s) = "fetch" THEN <<PROVIDERS[1]>> ELSE @]

\* the request of fetch_price ends (async with of line 82 is left)
Settle(s) ==
  /\ inflight' = [inflight EXCEPT ![s] = @ - 1]
  /\ UNCHANGED tried

\* CancelledError leaves the async with of an open request
Abort(s) ==
  /\ inflight' = [inflight EXCEPT ![s] = IF pc[s] = "fetch" THEN @ - 1 ELSE @]
  /\ UNCHANGED tried

\* ------------------------------------------------------------ poller steps
Start(s) ==
  /\ pc[s] = "start"
  /\ ~cancelReq[s]
  /\ next_delay' = [next_delay EXCEPT ![s] = POLL_INTERVAL_SEC]
  /\ Tick(s)
  /\ UNCHANGED <<ts, values, paused, stop_event, cancelReq, clock, hist, failRun>>
  /\ Issue(s, 0)
  /\ UNCHANGED curve
  /\ Resumed(s)

\* variant: a response that arrives after Task.cancel() is still stored
FetchOkAfterCancel(s) ==
  /\ pc[s] = "fetch"
  /\ clock < MaxClock
  /\ \E resp \in Responses(s) :
       /\ fetch_price(resp).ok
       /\ clock' = clock + 1
       /\ ts' = [ts EXCEPT ![s] = DequeAppend(@, clock')]
       /\ values' = [values EXCEPT ![s] = DequeAppend(@, fetch_price(resp).price)]
       /\ hist' = [hist EXCEPT ![s] = Append(@, <<clock', fetch_price(resp).price>>)]
  /\ pc' = [pc EXCEPT ![s] = "wait"]
  /\ failRun' = [failRun EXCEPT ![s] = 0]
  /\ UNCHANGED <<paused, stop_event, next_delay, cancelReq, skipRun, skipBuf>>
  /\ Settle(s)
  /\ UNCHANGED curve
  /\ Resumed(s)

\* variant: every series appends to one shared pair of deques
FetchOkSharedBuffer(s) ==
  /\ pc[s] = "fetch"
  /\ ~cancelReq[s]
  /\ clock < MaxClock
  /\ \E resp \in Responses(s) :
       /\ fetch_price(resp).ok
       /\ clock' = clock + 1
       /\ ts' = [b \in Series |-> DequeAppend(ts[b], clock')]
       /\ values' = [b \in Series |-> DequeAppend(values[b], fetch_price(resp).price)]
       /\ hist' = [b \in Series |-> Append(hist[b], <<clock', fetch_price(resp).price>>)]
  /\ pc' = [pc EXCEPT ![s] = "wait"]
  /\ failRun' = [failRun EXCEPT ![s] = 0]
  /\ UNCHANGED <<paused, stop_event, next_delay, cancelReq, skipRun, skipBuf>>
  /\ Settle(s)
  /\ UNCHANGED curve
  /\ Resumed(s)

\* variant: the loop is suspended between the two appends
FetchOkTorn(s) ==
  /\ pc[s] = "fetch"
  /\ ~cancelReq[s]
  /\ clock < MaxClock
  /\ \E resp \in Responses(s) :
       /\ fetch_price(resp).ok
       /\ clock' = clock + 1
       /\ ts' = [ts EXCEPT ![s] = DequeAppend(@, clock')]
       /\ hist' = [hist EXCEPT ![s] = Append(@, <<clock', fetch_price(resp).price>>)]
  /\ pc' = [pc EXCEPT ![s] = "wait"]
  /\ failRun' = [failRun EXCEPT ![s] = 0]
  /\ UNCHANGED <<values, paused, stop_event, next_delay, cancelReq, skipRun, skipBuf>>
  /\ Settle(s)
  /\ UNCHANGED curve
  /\ Resumed(s)

FetchOk(s) ==
  /\ pc[s] = "fetch"
  /\ ~cancelReq[s]
  /\ clock < MaxClock
  /\ \E resp \in Responses(s) :
       /\ fetch_price(resp).ok
       /\ clock' = clock + 1
       /\ ts' = [ts EXCEPT ![s] = DequeAppend(@, clock')]
       /\ values' = [values EXCEPT ![s] = DequeAppend(@, fetch_price(resp).price)]
       /\ hist' = [hist EXCEPT ![s] = Append(@, <<clock', fetch_price(resp).price>>)]
  /\ pc' = [pc EXCEPT ![s] = "wait"]
  /\ failRun' = [failRun EXCEPT ![s] = 0]
  /\ UNCHANGED <<paused, stop_event, next_delay, cancelReq, skipRun, skipBuf>>
  /\ Settle(s)
  /\ UNCHANGED curve
  /\ Resumed(s)

\* variant: the timed-out request is left open when the loop goes on
FetchTimeoutLeavesOpen(s) ==
  /\ pc[s] = "fetch"
  /\ ~cancelReq[s]
  /\ \E resp \in Responses(s) : fetch_price(resp).exc = "TimeoutError"
  /\ Tick(s)
  /\ UNCHANGED <<ts, values, paused, stop_event, next_delay, cancelReq, clock,
                 hist, failRun>>
  /\ Issue(s, 0)
  /\ UNCHANGED curve
  /\ Resumed(s)

FetchTimeout(s) ==
  /\ pc[s] = "fetch"
  /\ ~cancelReq[s]
  /\ \E resp \in Responses(s) : fetch_price(resp).exc = "TimeoutError"
  /\ Tick(s)
  /\ UNCHANGED <<ts, values, paused, stop_event, next_delay, cancelReq, clock,
                 hist, failRun>>
  /\ Issue(s, 1)
  /\ UNCHANGED curve
  /\ Resumed(s)

\* variant: the exception is not caught and ends the task
FetchErrorFatal(s) ==
  /\ pc[s] = "fetch"
  /\ ~cancelReq[s]
  /\ \E resp \in Responses(s) :
       /\ ~fetch_price(resp).ok
       /\ fetch_price(resp).exc # "TimeoutError"
  /\ pc' = [pc EXCEPT ![s] = "done"]
  /\ failRun' = [failRun EXCEPT ![s] = Min(@ + 1, RunCap)]
  /\ UNCHANGED <<ts, values, paused, stop_event, next_delay, cancelReq, clock,
                 hist, skipRun, skipBuf>>
  /\ Settle(s)
  /\ UNCHANGED curve
  /\ Resumed(s)

\* variant: a failed fetch stores a placeholder point
FetchErrorAppends(s) ==
  /\ pc[s] = "fetch"
  /\ ~cancelReq[s]
  /\ clock < MaxClock
  /\ \E resp \in Responses(s) :
       /\ ~fetch_price(resp).ok
       /\ fetch_price(resp).exc # "TimeoutError"
       /\ clock' = clock + 1
       /\ ts' = [ts EXCEPT ![s] = DequeAppend(@, clock')]
       /\ values' = [values EXCEPT ![s] = DequeAppend(@, fetch_price(resp).price)]
       /\ hist' = [hist EXCEPT ![s] = Append(@, <<clock', fetch_price(resp).price>>)]
  /\ pc' = [pc EXCEPT ![s] = "backoff"]
  /\ failRun' = [failRun EXCEPT ![s] = Min(@ + 1, RunCap)]
  /\ UNCHANGED <<paused, stop_event, next_delay, cancelReq, skipRun, skipBuf>>
  /\ Settle(s)
  /\ UNCHANGED curve
  /\ Resumed(s)

FetchError(s) ==
  /\ pc[s] = "fetch"
  /\ ~cancelReq[s]
  /\ \E resp \in Responses(s) :
       /\ ~fetch_price(resp).ok
       /\ fetch_price(resp).exc # "TimeoutError"
  /\ pc' = [pc EXCEPT ![s] = "backoff"]
  /\ failRun' = [failRun EXCEPT ![s] = Min(@ + 1, RunCap)]
  /\ UNCHANGED <<ts, values, paused, stop_event, next_delay, cancelReq, clock,
                 hist, skipRun, skipBuf>>
  /\ Settle(s)
  /\ UNCHANGED curve
  /\ Resumed(s)

\* variant: the wait of a skipped tick never times out
WaitTimeoutBlockedAfterPause(s) ==
  /\ pc[s] = "wait"
  /\ ~cancelReq[s]
  /\ skipRun[s] = 0
  /\ Tick(s)
  /\ UNCHANGED <<ts, values, paused, stop_event, next_delay, cancelReq, clock,
                 hist, failRun>>
  /\ Issue(s, 0)
  /\ UNCHANGED curve
  /\ Resumed(s)

WaitTimeout(s) ==
  /\ pc[s] = "wait"
  /\ ~cancelReq[s]
  /\ Tick(s)
  /\ UNCHANGED <<ts, values, paused, stop_event, next_delay, cancelReq, clock,
                 hist, failRun>>
  /\ Issue(s, 0)
  /\ UNCHANGED curve
  /\ Resumed(s)

BackoffDone(s) ==
  /\ pc[s] = "backoff"
  /\ ~cancelReq[s]
  /\ next_delay' = [next_delay EXCEPT ![s] = NextDelayAfterFailure(@)]
  /\ Tick(s)
  /\ UNCHANGED <<ts, values, paused, stop_event, cancelReq, clock, hist, failRun>>
  /\ Issue(s, 0)
  /\ UNCHANGED curve
  /\ Resumed(s)

\* variant: the backoff sleep cannot be interrupted
CancelledNotInBackoff(s) ==
  /\ cancelReq[s]
  /\ pc[s] \notin {"done", "backoff"}
  /\ pc' = [pc EXCEPT ![s] = "done"]
  /\ cancelReq' = [cancelReq EXCEPT ![s] = FALSE]
  /\ \/ UNCHANGED next_delay
     \/ /\ pc[s] = "wait"
        /\ next_delay' = [next_delay EXCEPT ![s] = POLL_INTERVAL_SEC]
  /\ UNCHANGED <<ts, values, paused, stop_event, clock, hist, failRun, skipRun,
                 skipBuf>>
  /\ Abort(s)
  /\ UNCHANGED curve
  /\ Resumed(s)

\* variant: CancelledError is swallowed and the loop goes on without the
\* while-test
CancelledSwallowed(s) ==
  /\ cancelReq[s]
  /\ pc[s] # "done"
  /\ pc' = [pc EXCEPT ![s] = IF paused[s] THEN "wait" ELSE "fetch"]
  /\ cancelReq' = [cancelReq EXCEPT ![s] = FALSE]
  /\ UNCHANGED <<ts, values, paused, stop_event, next_delay, clock, hist, failRun,
                 skipRun, skipBuf>>
  /\ Issue(s, IF pc[s] = "fetch" THEN 1 ELSE 0)
  /\ UNCHANGED curve
  /\ Resumed(s)

\* The cancelled task is resumed.  In fetch, in the backoff sleep and before
\* its first step CancelledError ends it.  In wait_for the event is already
\* set: depending on the asyncio version wait_for raises CancelledError
\* (line 116) or returns the event's result, and then line 109 runs before
\* the while-test ends the loop.
Cancelled(s) ==
  /\ cancelReq[s]
  /\ pc[s] # "done"
  /\ pc' = [pc EXCEPT ![s] = "done"]
  /\ cancelReq' = [cancelReq EXCEPT ![s] = FALSE]
  /\ \/ UNCHANGED next_delay
     \/ /\ pc[s] = "wait"
        /\ next_delay' = [next_delay EXCEPT ![s] = POLL_INTERVAL_SEC]
  /\ UNCHANGED <<ts, values, paused, stop_event, clock, hist, failRun, skipRun,
                 skipBuf>>
  /\ Abort(s)
  /\ UNCHANGED curve
  /\ Resumed(s)

PollerStep(s) ==
  \/ Start(s)
  \/ FetchOk(s)
  \/ FetchTimeout(s)
  \/ FetchError(s)
  \/ WaitTimeout(s)
  \/ BackoffDone(s)
  \/ Cancelled(s)

\* ---------------------------------------------------------------- window
\* variant: toggle_right was copied from toggle_left and still uses SYMBOLS[0]
ToggleFirstSeries(s) ==
  /\ ~stop_event
  /\ paused' = [paused EXCEPT ![SYMBOLS[1]] = ~@]
  /\ UNCHANGED <<ts, values, stop_event, pc, next_delay, cancelReq, clock, hist,
                 failRun, skipRun, skipBuf>>
  /\ UNCHANGED <<inflight, tried, curve>>
  /\ Counted(s)

\* variant: resuming a series wakes its poller at once
ToggleWakesPoller(s) ==
  /\ ~stop_event
  /\ paused' = [paused EXCEPT ![s] = ~@]
  /\ pc' = [pc EXCEPT ![s] = IF paused[s] /\ @ = "wait" THEN "fetch" ELSE @]
  /\ inflight' = [inflight EXCEPT ![s] =
                    IF paused[s] /\ pc[s] = "wait" THEN @ + 1 ELSE @]
  /\ UNCHANGED <<ts, values, stop_event, next_delay, cancelReq, clock, hist,
                 failRun, skipRun, skipBuf, tried, curve>>
  /\ Counted(s)

\* toggle_left / toggle_right: a click; aboutToQuit is emitted once the window
\* takes no more user input
Toggle(s) ==
  /\ ~stop_event
  /\ paused' = [paused EXCEPT ![s] = ~@]
  /\ UNCHANGED <<ts, values, stop_event, pc, next_delay, cancelReq, clock, hist,
                 failRun, skipRun, skipBuf>>
  /\ UNCHANGED <<inflight, tried, curve>>
  /\ Counted(s)

\* variant: cancel() marks finished tasks too
CleanupMarksFinished ==
  /\ stop_event' = TRUE
  /\ cancelReq' = [s \in Series |-> TRUE]
  /\ UNCHANGED <<ts, values, paused, pc, next_delay, clock, hist, failRun,
                 skipRun, skipBuf>>
  /\ UNCHANGED <<inflight, tried, curve>>
  /\ UNCHANGED <<tog, susp, track>>

\* _cleanup: Task.cancel() of a finished task does nothing
Cleanup ==
  /\ stop_event' = TRUE
  /\ cancelReq' = [s \in Series |-> pc[s] # "done"]
  /\ UNCHANGED <<ts, values, paused, pc, next_delay, clock, hist, failRun,
                 skipRun, skipBuf>>
  /\ UNCHANGED <<inflight, tried, curve>>
  /\ UNCHANGED <<tog, susp, track>>

\* redraw (ui_timer): an empty series leaves its curve as it is.  redraw only
\* writes the curves, which nothing else reads: ViewSpec runs it with the rest
\* of the program, the other specifications leave the timer out.
Redraw ==
  /\ curve' = [s \in Series |-> IF ts[s] # <<>> THEN <<ts[s], values[s]>> ELSE curve[s]]
  /\ UNCHANGED <<ts, values, paused, stop_event, pc, next_delay, cancelReq, clock,
                 hist, failRun, skipRun, skipBuf, inflight, tried>>
  /\ UNCHANGED <<tog, susp, track>>

Next ==
  \/ \E s \in Series : PollerStep(s)
  \/ \E s \in Series : Toggle(s)
  \/ Cleanup

ViewNext ==
  \/ Next
  \/ Redraw

Spec == Init /\ [][Next]_vars

ViewSpec == Init /\ [][ViewNext]_vars

\* the program while the window stays open (no _cleanup), toggles recorded
PairNext ==
  \/ \E s \in Series :
        \/ Start(s)
        \/ FetchOk(s)
        \/ FetchTimeout(s)
        \/ FetchError(s)
        \/ WaitTimeout(s)
        \/ BackoffDone(s)
  \/ \E s \in Series : Toggle(s)

PairSpec == PairInit /\ [][PairNext]_vars

\* the event loop resumes every task that is ready
FairSpec == Spec /\ \A s \in Series : WF_vars(PollerStep(s))

\* ------------------------------------------------------------------ claims
RECURSIVE Pow2(_)
Pow2(n) == IF n <= 0 THEN 1 ELSE 2 * Pow2(n - 1)

Max(a, b) == IF a >= b THEN a ELSE b

\* the last BUFFER_POINTS samples of a history, oldest first
Recent(h) == SubSeq(h, Max(1, Len(h) - BUFFER_POINTS + 1), Len(h))

\* C1: whenever a fetch of a series is in flight and no failure has been
\* backed off since that series' last success (and no stop is signalled), its
\* backoff delay is the base delay, so a failure of that fetch waits the base.
C1_SuccessResetsDelay ==
  \A s \in Series :
    (pc[s] = "fetch" /\ failRun[s] = 0 /\ ~stop_event)
      => next_delay[s] = POLL_INTERVAL_SEC

\* C2: every step in which a fetch fails, by an error or by a request
\* timeout, leaves the poller in the backoff wait (where the warning has
\* been printed) before it can fetch again.
C2_FailureBacksOff ==
  [][\A s \in Series :
       (FetchError(s) \/ FetchTimeout(s)) => pc'[s] = "backoff"]_vars

\* C3: both deques of a series never hold more than BUFFER_POINTS elements
\* and hold exactly the most recent BUFFER_POINTS samples appended to the
\* series (all of them while fewer were appended), oldest first.
C3_BoundedFifo ==
  \A s \in Series :
    /\ Len(ts[s]) <= BUFFER_POINTS
    /\ Len(values[s]) <= BUFFER_POINTS
    /\ ts[s] = [i \in 1..Len(Recent(hist[s])) |-> Recent(hist[s])[i][1]]
    /\ values[s] = [i \in 1..Len(Recent(hist[s])) |-> Recent(hist[s])[i][2]]

C3_Witness ==
  \E s \in Series : Len(hist[s]) > BUFFER_POINTS /\ Len(ts[s]) = BUFFER_POINTS

\* C4: while a series is in a run of consecutive ticks that all saw paused
\* true, no fetch of it is in flight and its buffer equals the buffer at the
\* start of the first tick of the run.
C4_PausedTicksKeepBuffer ==
  \A s \in Series :
    skipRun[s] > 0 => (pc[s] # "fetch" /\ Buffer(s) = skipBuf[s])

C4_Witness ==
  \E s \in Series :
    skipRun[s] = MaxSkip /\ MaxSkip >= 2 /\ pc[s] = "wait" /\ ts[s] # <<>>

\* C5: once _cleanup has set stop_event, no step changes any series' ts or
\* values.
C5_NoAppendAfterStop ==
  [][stop_event => (ts' = ts /\ values' = values)]_vars

C5_Witness ==
  \E s, t \in Series :
    /\ stop_event
    /\ pc[s] = "fetch" /\ cancelReq[s]
    /\ pc[t] = "done" /\ ts[t] # <<>>

\* C6: under fair scheduling of the tasks, once stop_event is set every
\* poller eventually ends.
C6_AllCancelled ==
  stop_event ~> (\A s \in Series : pc[s] = "done")

C6_Witness ==
  stop_event /\ \A s \in Series : pc[s] = "done" /\ failRun[s] > 0

\* C7: a poller that has ended has ended after the stop signal: no fetch
\* outcome ends it.
C7_ExitOnlyAfterStop ==
  \A s \in Series : pc[s] = "done" => stop_event

C7_Witness ==
  \E s \in Series : pc[s] = "fetch" /\ failRun[s] >= 2 /\ hist[s] # <<>>

\* C8: the n-th backoff wait of a run of failures with no success in between
\* is min(MaxDelay, POLL_INTERVAL_SEC * 2^(n-1)).
C8_NthBackoffWait ==
  \A s \in Series :
    pc[s] = "backoff" =>
      BackoffWait(next_delay[s])
        = Min(MaxDelay, POLL_INTERVAL_SEC * Pow2(failRun[s] - 1))

\* C9: next_delay of every poller is always between the base delay and the
\* maximum delay.
C9_DelayInRange ==
  \A s \in Series :
    POLL_INTERVAL_SEC <= next_delay[s] /\ next_delay[s] <= MaxDelay

C9_Witness ==
  \E s \in Series : next_delay[s] = MaxDelay /\ pc[s] = "backoff"

\* C10: a step of the poller of one series changes nothing of another
\* series (deques, paused, delay, position of its poller, pending cancel),
\* and a poller that has not ended always has a step it can take whatever
\* the other pollers are doing.
C10_Isolation ==
  /\ [](\A b \in Series : pc[b] # "done" => ENABLED PollerStep(b))
  /\ [][\A a \in Series :
          PollerStep(a) =>
            \A b \in Series \ {a} :
              /\ ts'[b] = ts[b] /\ values'[b] = values[b]
              /\ paused'[b] = paused[b] /\ next_delay'[b] = next_delay[b]
              /\ pc'[b] = pc[b] /\ cancelReq'[b] = cancelReq[b]]_vars

C10_Witness ==
  \E a, b \in Series :
    /\ a # b
    /\ pc[a] = "backoff" /\ next_delay[a] > POLL_INTERVAL_SEC
    /\ pc[b] = "wait" /\ next_delay[b] = POLL_INTERVAL_SEC /\ ts[b] # <<>>

\* C11: only a toggle of a series changes that series' paused flag, and a
\* toggle of one series leaves the other series' paused flag and every
\* series' deques and backoff delay unchanged.
C11_PausedOnlyByToggle ==
  [][/\ \A s \in Series : paused'[s] # paused[s] => Toggle(s)
     /\ \A s \in Series :
          Toggle(s) =>
            /\ paused'[s] = ~paused[s]
            /\ \A b \in Series \ {s} : paused'[b] = paused[b]
            /\ ts' = ts /\ values' = values /\ next_delay' = next_delay]_vars

C11_Witness ==
  \E a, b \in Series :
    /\ paused[a] /\ ~paused[b]
    /\ ts[a] # <<>> /\ ts[b] # <<>>
    /\ next_delay[b] > POLL_INTERVAL_SEC

\* C13: the deques of a series change only in a successful fetch of that
\* series; a fetch that fails (error or timeout) leaves them unchanged; a
\* successful fetch adds exactly one new sample at the right end, keeping
\* the others (all of them, or all but the oldest when the deque was full).
C13_AppendOnlyOnSuccess ==
  [][\A s \in Series :
       /\ (ts'[s] # ts[s] \/ values'[s] # values[s]) => FetchOk(s)
       /\ (FetchError(s) \/ FetchTimeout(s))
            => (ts'[s] = ts[s] /\ values'[s] = values[s])
       /\ FetchOk(s) =>
            \E t \in 1..MaxClock, v \in {Float[str] : str \in DOMAIN Float} :
              /\ \A i \in 1..Len(ts[s]) : ts[s][i] < t
              /\ \/ ts'[s] = Append(ts[s], t) /\ values'[s] = Append(values[s], v)
                 \/ /\ Len(ts[s]) = BUFFER_POINTS
                    /\ ts'[s] = Append(Tail(ts[s]), t)
                    /\ values'[s] = Append(Tail(values[s]), v)]_vars

C13_Witness ==
  \E s \in Series : pc[s] = "backoff" /\ Len(ts[s]) = 1 /\ failRun[s] = 1

\* C14: under fair scheduling, a series that was resumed after a skipped
\* tick fetches again unless it is paused again or the stop is signalled;
\* and a fetch that succeeds adds a sample with a new timestamp.
C14_ResumeFetches ==
  /\ \A s \in Series :
       (skipRun[s] > 0 /\ ~paused[s] /\ ~stop_event)
         ~> (pc[s] = "fetch" \/ paused[s] \/ stop_event)
  /\ [][\A s \in Series :
          FetchOk(s) =>
            /\ Len(ts'[s]) > 0
            /\ ts'[s][Len(ts'[s])] = clock'
            /\ clock' > clock]_vars

C14_Witness ==
  \E s \in Series :
    skipRun[s] > 0 /\ ~paused[s] /\ ~stop_event /\ pc[s] = "wait"

\* C15: once stop_event is set, no step puts a poller into a fetch.
C15_NoFetchAfterStop ==
  [][stop_event => \A s \in Series : pc'[s] = "fetch" => pc[s] = "fetch"]_vars

C15_Witness ==
  /\ stop_event
  /\ \A s \in Series : pc[s] = "done" /\ ts[s] # <<>>

\* C18: in every state reached after _cleanup has run, _cleanup can run
\* again and running it changes nothing.
C18_CleanupIdempotent ==
  stop_event => (ENABLED Cleanup /\ ~ENABLED <<Cleanup>>_vars)

C18_Witness ==
  \E s, t \in Series :
    /\ stop_event
    /\ pc[s] = "backoff" /\ cancelReq[s]
    /\ pc[t] = "done" /\ ~cancelReq[t]

\* C19: no step changes the deques of a series whose paused flag is True.
C19_NoAppendWhilePaused ==
  [][\A s \in Series :
       paused[s] => (ts'[s] = ts[s] /\ values'[s] = values[s])]_vars

\* the samples of a history, as a set
Samples(h) == {h[i] : i \in 1..Len(h)}

\* x and y lists of equal length whose i-th elements are one sample of h
Paired(xs, ys, h) ==
  /\ Len(xs) = Len(ys)
  /\ \A i \in 1..Len(xs) : <<xs[i], ys[i]>> \in Samples(h)

\* C12: in every state (a reader runs between two steps) ts and values of a
\* series have the same length and their i-th elements are the timestamp
\* and the value of one appended sample; so do the lists redraw copied.
C12_NoTornRead ==
  \A s \in Series :
    /\ Paired(ts[s], values[s], hist[s])
    /\ Paired(curve[s][1], curve[s][2], hist[s])

C12_Witness ==
  \E s \in Series :
    /\ curve[s][1] # <<>>
    /\ curve[s] # Buffer(s)
    /\ Len(ts[s]) = BUFFER_POINTS

\* C16: a series never has more than one request open, it has one exactly
\* while its poller is in fetch, and the timestamps of the samples appended
\* to it are strictly increasing.
C16_OneFetchInFlight ==
  \A s \in Series :
    /\ inflight[s] \in {0, 1}
    /\ inflight[s] = 1 <=> pc[s] = "fetch"
    /\ \A i, j \in 1..Len(hist[s]) : i < j => hist[s][i][1] < hist[s][j][1]

C16_Witness ==
  \E s \in Series : Len(hist[s]) >= 2 /\ pc[s] = "fetch" /\ inflight[s] = 1

C20_TogglePairInvisible ==
  \A s \in Series : tog[s] = 2 => View(s) = susp[s]

C20_Witness ==
  \E s \in Series : tog[s] = 2 /\ pc[s] = "fetch" /\ ts[s] # <<>>

====
